---------------------------- MODULE Spec2Model ----------------------------
(***************************************************************************)
(* A model of iso-chooser-menu (src/main.c): the program reads one image   *)
(* record per input feed, shows them as an ncurses menu, lets the operator *)
(* move a highlight with the arrow keys, and writes the committed record   *)
(* to the output file.                                                     *)
(*                                                                         *)
(* The process is single-threaded; pc is the position of main().  C arrays *)
(* are functions on 0..len-1, so indices read as in the source.            *)
(***************************************************************************)
EXTENDS Integers, Sequences, FiniteSets, TLC

(* ----------------------------- bounds ---------------------------------- *)

\* Largest number of input feeds on the command line.
MaxFiles == 3

(* ------------------------------ data ------------------------------------ *)

\* A null pointer (to any struct).
NULL == [null |-> TRUE]

\* iso_data_t values the Feed Reader can produce.  The two labels are the
\* ones of the spec's scenario B.  Two feeds may hold the same record; each
\* is then read into an object of its own.
Records ==
    { [url |-> "http://s", label |-> "Ubuntu Server 24.04",
       sha256sum |-> "aa", size |-> 0],
      [url |-> "http://d", label |-> "Ubuntu Desktop 24.04",
       sha256sum |-> "bb", size |-> 1642631168] }

\* What one input file holds, as far as the Feed Reader is concerned: the
\* newest matching record, or nothing usable.
NoRecord == [norecord |-> TRUE]
FeedContents == Records \cup {NoRecord}

\* Keys wgetch can deliver; ERR is its return value when no key was read.
Keys == {"KEY_DOWN", "KEY_UP", "KEY_ENTER", "CR", "NL", "SPACE",
         "q", "ESC", "KEY_LEFT", "ERR"}

\* Screen sizes initscr can report.
LinesValues == {4, 5, 24}
ColsValues == {20, 26, 80}

VARIABLES
    argc,          \* main's argc
    feeds,         \* feeds[f]: content of input file f (environment)
    outfile,       \* the output file: [exists, lines]
    pc,            \* position of main()
    status,        \* process exit status, -1 while running
    args,          \* args_t * of main
    iso_info,      \* choices_t * of main
    heap,          \* the iso_data_t objects allocated so far, by address
    readerCalls,   \* input files get_newest_iso was called with, in order
    term,          \* the terminal: [state, echo, cbreak, cursor]
    LINES,         \* ncurses' LINES
    COLS,          \* ncurses' COLS
    screen,        \* what is drawn: subset of {"banner", "menu"}
    handlers,      \* functions registered with atexit, in order
    endwinCalls,   \* number of endwin() calls so far
    menu,          \* menu_t * of main
    continuing,    \* main's loop flag
    lastKey,       \* last value returned by wgetch, "none" before the first
    writeCalls,    \* each write_output call so far: arguments and outcome
    syslog,        \* messages logged so far
    freed          \* objects released by the *_free calls of main

vars == <<argc, feeds, outfile, pc, status, args, iso_info, heap, readerCalls,
          term, LINES, COLS, screen, handlers, endwinCalls, menu, continuing,
          lastKey, writeCalls, syslog, freed>>

(* ------------------------- pure helpers --------------------------------- *)

\* C's integer division truncates toward zero.
CDiv(a, b) == IF a >= 0 THEN a \div b ELSE -((-a) \div b)

MAX(a, b) == IF a > b THEN a ELSE b

\* strlen of an ASCII string.
strlen(s) == Len(s)

RECURSIVE Spaces(_)
Spaces(n) == IF n <= 0 THEN "" ELSE " " \o Spaces(n - 1)

\* printf's "%-*s": left-justified, padded to the width, never truncated.
PadLeftJustified(s, w) == s \o Spaces(w - strlen(s))

RECURSIVE Decimal(_)
\* printf's "%" PRId64 for a non-negative value.
Decimal(n) ==
    IF n < 10 THEN <<"0", "1", "2", "3", "4", "5", "6", "7", "8", "9">>[n + 1]
    ELSE Decimal(n \div 10) \o Decimal(n % 10)

(* --------------------- collaborators of main.c -------------------------- *)

\* args_create: NULL unless an output path and at least one input feed are
\* given; input file names are their positions on the command line.
args_create(n) ==
    IF n < 3 THEN NULL
    ELSE [outfile |-> "out", num_infiles |-> n - 2,
          infiles |-> [i \in 0 .. n - 3 |-> i]]

\* choices_create: a ChoiceSet of len slots, all null.
choices_create(len) == [len |-> len, values |-> [i \in 0 .. len - 1 |-> NULL]]

\* get_newest_iso on input file f with the objects h allocated so far: a
\* pointer to a fresh record holding the feed's newest image, or NULL when
\* the feed yields none.  Returns the pointer and the heap after the call.
get_newest_iso(f, h) ==
    IF feeds[f] = NoRecord
    THEN [ptr |-> NULL, heap |-> h]
    ELSE [ptr |-> [addr |-> Len(h) + 1], heap |-> Append(h, feeds[f])]

(* --------------------------- main.c ------------------------------------- *)

RECURSIVE read_iso_choices_loop(_, _, _)
\* The for loop of read_iso_choices from index i on; st is the loop's state
\* [choices, heap, calls].
read_iso_choices_loop(a, i, st) ==
    IF i >= a.num_infiles THEN st
    ELSE LET r == get_newest_iso(a.infiles[i], st.heap)
         IN  read_iso_choices_loop(a, i + 1,
                 [choices |-> [st.choices EXCEPT !.values[i] = r.ptr],
                  heap    |-> r.heap,
                  calls   |-> Append(st.calls, a.infiles[i])])

\* Mutant: the loop stores the record of feed i in slot len-1-i.
read_iso_choices_reversed(a, h) ==
    LET r == read_iso_choices_loop(a, 0,
                 [choices |-> choices_create(a.num_infiles), heap |-> h,
                  calls |-> <<>>])
        n == a.num_infiles
    IN  [r EXCEPT !.choices.values = [i \in 0 .. n - 1 |-> r.choices.values[n - 1 - i]]]

\* read_iso_choices: [choices, heap, calls] after the call.
read_iso_choices(a, h) ==
    read_iso_choices_loop(a, 0,
        [choices |-> choices_create(a.num_infiles), heap |-> h, calls |-> <<>>])

horizontal_center(len) == CDiv(COLS - len, 2)

\* Mutant: the banner's rows are not accounted for.
vertical_center_no_banner(len) == CDiv(LINES - len, 2)

\* accounts for 3 line banner
vertical_center(len) == 3 + CDiv(LINES - 3 - len, 2)

\* button_item: the item's text; ">" stands for the one-column glyph U+25B8.
button_item(label, textwidth) ==
    [name |-> "[ " \o PadLeftJustified(label, textwidth) \o " > ]"]

\* Mutant: the loop assigns each label's length instead of taking MAX, so
\* the last label's length is what remains.
longest_loop_keeps_last(choices, h, i, longest) ==
    IF i >= choices.len THEN longest
    ELSE strlen(h[choices.values[choices.len - 1].addr].label)

RECURSIVE longest_loop(_, _, _, _)
\* The first for loop of menu_create from index i on.
longest_loop(choices, h, i, longest) ==
    IF i >= choices.len THEN longest
    ELSE longest_loop(choices, h, i + 1,
             MAX(longest, strlen(h[choices.values[i].addr].label)))

\* Mutant: menu_create makes the last item the current one.
menu_create_last_current(choices, h) ==
    LET longest == longest_loop(choices, h, 0, 0)
        width   == longest + 6
    IN  [choices |-> choices,
         items   |-> [i \in 0 .. choices.len - 1 |->
                         button_item(h[choices.values[i].addr].label, longest)],
         window  |-> [nlines |-> choices.len, ncols |-> width,
                      begin_y |-> vertical_center(choices.len),
                      begin_x |-> horizontal_center(width)],
         cur     |-> choices.len - 1,
         posted  |-> TRUE]

\* menu_create, for a ChoiceSet without null entries: the menu_t it returns.
\* new_menu makes the first item the current one.
menu_create(choices, h) ==
    LET longest == longest_loop(choices, h, 0, 0)
        width   == longest + 6
    IN  [choices |-> choices,
         items   |-> [i \in 0 .. choices.len - 1 |->
                         button_item(h[choices.values[i].addr].label, longest)],
         window  |-> [nlines |-> choices.len, ncols |-> width,
                      begin_y |-> vertical_center(choices.len),
                      begin_x |-> horizontal_center(width)],
         cur     |-> 0,
         posted  |-> TRUE]

\* menu_driver(menu, req) of libmenu with the default options (O_NONCYCLIC
\* set): the request is denied at either end of the list.
menu_driver(m, req) ==
    CASE req = "REQ_DOWN_ITEM" ->
             IF m.cur + 1 < m.choices.len THEN [m EXCEPT !.cur = m.cur + 1] ELSE m
      [] req = "REQ_UP_ITEM" ->
             IF m.cur > 0 THEN [m EXCEPT !.cur = m.cur - 1] ELSE m
      [] OTHER -> m

\* item_index(current_item(menu->menu))
item_index_current(m) == m.cur

\* Mutant: the index is not taken from the menu's current item.
menu_get_selected_item_first(m) == m.choices.values[0]

menu_get_selected_item(m) ==
    LET idx == item_index_current(m)
    IN  m.choices.values[idx]

\* Mutant: the two arrow cases ask for the cyclic requests, which wrap
\* around at the ends of the list.
key_switch_cyclic(k, m) ==
    CASE k = "KEY_DOWN" ->
             [menu |-> [m EXCEPT !.cur = (m.cur + 1) % m.choices.len],
              continuing |-> TRUE]
      [] k = "KEY_UP" ->
             [menu |-> [m EXCEPT !.cur = (m.cur + m.choices.len - 1) % m.choices.len],
              continuing |-> TRUE]
      [] k \in {"KEY_ENTER", "CR", "NL", "SPACE"} ->
             [menu |-> m, continuing |-> FALSE]
      [] OTHER ->
             [menu |-> m, continuing |-> TRUE]

\* Mutant: the space case is missing, and a commit key first moves down.
key_switch_commit_moves(k, m) ==
    CASE k = "KEY_DOWN" ->
             [menu |-> menu_driver(m, "REQ_DOWN_ITEM"), continuing |-> TRUE]
      [] k = "KEY_UP" ->
             [menu |-> menu_driver(m, "REQ_UP_ITEM"), continuing |-> TRUE]
      [] k \in {"KEY_ENTER", "CR", "NL"} ->
             [menu |-> menu_driver(m, "REQ_DOWN_ITEM"), continuing |-> FALSE]
      [] OTHER ->
             [menu |-> m, continuing |-> TRUE]

\* Mutant: the default case falls into the down-arrow case.
key_switch_default_moves(k, m) ==
    CASE k = "KEY_UP" ->
             [menu |-> menu_driver(m, "REQ_UP_ITEM"), continuing |-> TRUE]
      [] k \in {"KEY_ENTER", "CR", "NL", "SPACE"} ->
             [menu |-> m, continuing |-> FALSE]
      [] OTHER ->
             [menu |-> menu_driver(m, "REQ_DOWN_ITEM"), continuing |-> TRUE]

\* Mutant: ESC cancels, ending the loop without a selection.
key_switch_esc_cancels(k, m) ==
    CASE k = "KEY_DOWN" ->
             [menu |-> menu_driver(m, "REQ_DOWN_ITEM"), continuing |-> TRUE]
      [] k = "KEY_UP" ->
             [menu |-> menu_driver(m, "REQ_UP_ITEM"), continuing |-> TRUE]
      [] k \in {"KEY_ENTER", "CR", "NL", "SPACE", "ESC"} ->
             [menu |-> m, continuing |-> FALSE]
      [] OTHER ->
             [menu |-> m, continuing |-> TRUE]

\* Mutant: the commit cases break without clearing the loop flag.
key_switch_never_commits(k, m) ==
    CASE k = "KEY_DOWN" ->
             [menu |-> menu_driver(m, "REQ_DOWN_ITEM"), continuing |-> TRUE]
      [] k = "KEY_UP" ->
             [menu |-> menu_driver(m, "REQ_UP_ITEM"), continuing |-> TRUE]
      [] OTHER ->
             [menu |-> m, continuing |-> TRUE]

\* The switch of main's loop on key k: the menu and the loop flag after it.
key_switch(k, m) ==
    CASE k = "KEY_DOWN" ->
             [menu |-> menu_driver(m, "REQ_DOWN_ITEM"), continuing |-> TRUE]
      [] k = "KEY_UP" ->
             [menu |-> menu_driver(m, "REQ_UP_ITEM"), continuing |-> TRUE]
      [] k \in {"KEY_ENTER", "CR", "NL", "SPACE"} ->
             [menu |-> m, continuing |-> FALSE]
      [] OTHER ->
             [menu |-> m, continuing |-> TRUE]

\* The four fprintf calls of write_output for the record d.
output_lines(d) ==
    << "MEDIA_URL=\"" \o d.url \o "\"",
       "MEDIA_LABEL=\"" \o d.label \o "\"",
       "MEDIA_256SUM=\"" \o d.sha256sum \o "\"",
       "MEDIA_SIZE=\"" \o Decimal(d.size) \o "\"" >>

\* exit_cb on terminal t: erase, refresh, endwin.  endwin leaves curses mode
\* and puts the tty modes back.
exit_cb(t) ==
    [t EXCEPT !.state = "ended", !.echo = TRUE, !.cbreak = FALSE, !.cursor = TRUE]

(* ------------------------- initial state -------------------------------- *)

Init ==
    /\ argc \in 1 .. MaxFiles + 2
    /\ feeds \in [0 .. argc - 3 -> FeedContents]
    /\ outfile \in { [exists |-> FALSE, lines |-> <<>>],
                     [exists |-> TRUE, lines |-> <<"OLD">>] }
    /\ pc = "args_create"
    /\ status = -1
    /\ args = NULL
    /\ iso_info = NULL
    /\ heap = <<>>
    /\ readerCalls = <<>>
    /\ term = [state |-> "shell", echo |-> TRUE, cbreak |-> FALSE, cursor |-> TRUE]
    /\ LINES = 0
    /\ COLS = 0
    /\ screen = {}
    /\ handlers = <<>>
    /\ endwinCalls = 0
    /\ menu = NULL
    /\ continuing = FALSE
    /\ lastKey = "none"
    /\ writeCalls = <<>>
    /\ syslog = <<>>
    /\ freed = {}

(* ---------------------------- actions ----------------------------------- *)

envVars == <<argc, feeds>>
dataVars == <<args, iso_info, heap, readerCalls>>
termVars == <<term, LINES, COLS, screen, endwinCalls>>
menuVars == <<menu, continuing, lastKey>>

\* main returns s, or exit(s) is called: the process starts to exit.
Leave(s) ==
    /\ pc' = "exit"
    /\ status' = s

\* main, lines 267-270: args_create, usage() when it fails, setlocale.
ArgsCreate ==
    /\ pc = "args_create"
    /\ args' = args_create(argc)
    /\ IF args' = NULL
       THEN Leave(1)
       ELSE pc' = "read_iso_choices" /\ status' = status
    /\ UNCHANGED <<envVars, outfile, iso_info, heap, readerCalls, termVars,
                   handlers, menuVars, writeCalls, syslog, freed>>

\* main, lines 272-276: read_iso_choices and the check of its result.
ReadIsoChoices ==
    /\ pc = "read_iso_choices"
    /\ LET r == read_iso_choices(args, heap)
       IN  /\ iso_info' = r.choices
           /\ heap' = r.heap
           /\ readerCalls' = readerCalls \o r.calls
    /\ IF iso_info' = NULL
       THEN /\ syslog' = Append(syslog, "failed to read JSON data")
            /\ Leave(1)
       ELSE /\ syslog' = syslog
            /\ pc' = "initscr"
            /\ status' = status
    /\ UNCHANGED <<envVars, outfile, args, termVars, handlers, menuVars,
                   writeCalls, freed>>

\* main, lines 278-281: initscr, which may fail; on success the terminal is
\* in curses mode and LINES and COLS are set.
InitScr ==
    /\ pc = "initscr"
    /\ \/ /\ syslog' = Append(syslog, "initscr failure")
          /\ Leave(1)
          /\ UNCHANGED <<term, LINES, COLS>>
       \/ /\ term' = [term EXCEPT !.state = "curses"]
          /\ LINES' \in LinesValues
          /\ COLS' \in ColsValues
          /\ pc' = "atexit"
          /\ UNCHANGED <<syslog, status>>
    /\ UNCHANGED <<envVars, outfile, dataVars, screen, endwinCalls, handlers,
                   menuVars, writeCalls, freed>>

\* main, lines 283-285: atexit(exit_cb), noecho.
AtExit ==
    /\ pc = "atexit"
    /\ handlers' = Append(handlers, "exit_cb")
    /\ term' = [term EXCEPT !.echo = FALSE]
    /\ pc' = "has_colors"
    /\ UNCHANGED <<envVars, outfile, status, dataVars, LINES, COLS, screen,
                   endwinCalls, menuVars, writeCalls, syslog, freed>>

\* Mutant: the has_colors failure is logged and main goes on.
HasColors_ContinuesOnFailure ==
    /\ pc = "has_colors"
    /\ \/ syslog' = Append(syslog, "has_colors failure")
       \/ UNCHANGED syslog
    /\ pc' = "start_color"
    /\ UNCHANGED <<envVars, outfile, status, dataVars, termVars, handlers,
                   menuVars, writeCalls, freed>>

\* main, lines 287-290.
HasColors ==
    /\ pc = "has_colors"
    /\ \/ /\ syslog' = Append(syslog, "has_colors failure")
          /\ Leave(1)
       \/ /\ pc' = "start_color"
          /\ UNCHANGED <<syslog, status>>
    /\ UNCHANGED <<envVars, outfile, dataVars, termVars, handlers, menuVars,
                   writeCalls, freed>>

\* main, lines 292-295.
StartColor ==
    /\ pc = "start_color"
    /\ \/ /\ syslog' = Append(syslog, "start_color failure")
          /\ Leave(1)
       \/ /\ pc' = "setup"
          /\ UNCHANGED <<syslog, status>>
    /\ UNCHANGED <<envVars, outfile, dataVars, termVars, handlers, menuVars,
                   writeCalls, freed>>

\* main, lines 297-302: keypad, cbreak, curs_set(0), resources_create (which
\* logs can_change_color) and top_banner.
Setup ==
    /\ pc = "setup"
    /\ term' = [term EXCEPT !.cbreak = TRUE, !.cursor = FALSE]
    /\ syslog' = Append(syslog, "can_change_color")
    /\ screen' = screen \cup {"banner"}
    /\ pc' = "menu_create"
    /\ UNCHANGED <<envVars, outfile, status, dataVars, LINES, COLS,
                   endwinCalls, handlers, menuVars, writeCalls, freed>>

\* main, lines 304-307: menu_create, refresh, continuing = true.  With a null
\* entry in the ChoiceSet, menu_create's choices->values[i]->label reads
\* through a null pointer: the process is killed by SIGSEGV, and a process
\* killed by a signal runs no atexit handler.
MenuCreate ==
    /\ pc = "menu_create"
    /\ IF \E i \in 0 .. iso_info.len - 1 : iso_info.values[i] = NULL
       THEN /\ pc' = "crashed"
            /\ status' = 139
            /\ UNCHANGED <<menu, continuing, screen>>
       ELSE /\ menu' = menu_create(iso_info, heap)
            /\ screen' = screen \cup {"menu"}
            /\ continuing' = TRUE
            /\ pc' = "loop"
            /\ status' = status
    /\ UNCHANGED <<envVars, outfile, dataVars, term, LINES, COLS, endwinCalls,
                   handlers, lastKey, writeCalls, syslog, freed>>

\* Mutant: an arrow key moves the highlighted record within the ChoiceSet
\* instead of moving the highlight.
ReadKey_MovesRecord(k) ==
    /\ pc = "loop"
    /\ continuing
    /\ lastKey' = k
    /\ LET r == key_switch(k, menu)
           i == menu.cur
           j == r.menu.cur
           swapped == [iso_info EXCEPT !.values[i] = iso_info.values[j],
                                       !.values[j] = iso_info.values[i]]
       IN  /\ iso_info' = swapped
           /\ menu' = [r.menu EXCEPT !.choices = swapped]
           /\ continuing' = r.continuing
    /\ pc' = IF continuing' THEN "loop" ELSE "write_output"
    /\ UNCHANGED <<envVars, outfile, status, args, heap, readerCalls, termVars,
                   handlers, writeCalls, syslog, freed>>

\* main, lines 308-326: one iteration of the loop, reading key k.
ReadKey(k) ==
    /\ pc = "loop"
    /\ continuing
    /\ lastKey' = k
    /\ LET r == key_switch(k, menu)
       IN  /\ menu' = r.menu
           /\ continuing' = r.continuing
    /\ pc' = IF continuing' THEN "loop" ELSE "write_output"
    /\ UNCHANGED <<envVars, outfile, status, dataVars, termVars, handlers,
                   writeCalls, syslog, freed>>

\* The lines the output file holds after write_output's fprintf and fclose
\* calls for record d, of which the first k lines reached the file.  The
\* code ignores the results of fprintf and fclose; fopen "w" has truncated
\* the file, whatever it held.
file_after_write(d, k) ==
    [exists |-> TRUE, lines |-> SubSeq(output_lines(d), 1, k)]

\* Mutant: write_output returns when fopen fails, and main goes on.
WriteOutput_ReturnsOnFailure ==
    /\ pc = "write_output"
    /\ LET fname    == args.outfile
           iso_data == menu_get_selected_item(menu)
           call     == [fname |-> fname, iso_data |-> iso_data]
       IN  \/ /\ writeCalls' = Append(writeCalls, call @@ [result |-> "open failed"])
              /\ syslog' = Append(syslog, "failed to open output file")
              /\ UNCHANGED outfile
           \/ \E k \in 0 .. Len(output_lines(heap[iso_data.addr])) :
                 /\ writeCalls' = Append(writeCalls, call @@
                        [result |-> IF k = Len(output_lines(heap[iso_data.addr]))
                                    THEN "written" ELSE "write error"])
                 /\ syslog' = Append(syslog, "selected")
                 /\ outfile' = file_after_write(heap[iso_data.addr], k)
    /\ pc' = "free"
    /\ status' = status
    /\ UNCHANGED <<envVars, dataVars, termVars, handlers, menuVars, freed>>

\* Mutant: the file is opened for appending.
WriteOutput_Appends ==
    /\ pc = "write_output"
    /\ LET fname    == args.outfile
           iso_data == menu_get_selected_item(menu)
           call     == [fname |-> fname, iso_data |-> iso_data]
       IN  \/ /\ writeCalls' = Append(writeCalls, call @@ [result |-> "open failed"])
              /\ syslog' = Append(syslog, "failed to open output file")
              /\ Leave(1)
              /\ UNCHANGED outfile
           \/ \E k \in 0 .. Len(output_lines(heap[iso_data.addr])) :
                 /\ writeCalls' = Append(writeCalls, call @@
                        [result |-> IF k = Len(output_lines(heap[iso_data.addr]))
                                    THEN "written" ELSE "write error"])
                 /\ syslog' = Append(syslog, "selected")
                 /\ outfile' = [exists |-> TRUE,
                                lines |-> outfile.lines \o
                                    file_after_write(heap[iso_data.addr], k).lines]
                 /\ pc' = "free"
                 /\ status' = status
    /\ UNCHANGED <<envVars, dataVars, termVars, handlers, menuVars, freed>>

\* main, line 328, and write_output.  fopen may fail: the failure is logged
\* and exit(1) called.  Otherwise the file is truncated and the four lines
\* are written; a write may fail (disk full, I/O error), so that only the
\* first k lines reach the file, and write_output returns all the same.
WriteOutput ==
    /\ pc = "write_output"
    /\ LET fname    == args.outfile
           iso_data == menu_get_selected_item(menu)
           call     == [fname |-> fname, iso_data |-> iso_data]
       IN  \/ /\ writeCalls' = Append(writeCalls, call @@ [result |-> "open failed"])
              /\ syslog' = Append(syslog, "failed to open output file")
              /\ Leave(1)
              /\ UNCHANGED outfile
           \/ \E k \in 0 .. Len(output_lines(heap[iso_data.addr])) :
                 /\ writeCalls' = Append(writeCalls, call @@
                        [result |-> IF k = Len(output_lines(heap[iso_data.addr]))
                                    THEN "written" ELSE "write error"])
                 /\ syslog' = Append(syslog, "selected")
                 /\ outfile' = file_after_write(heap[iso_data.addr], k)
                 /\ pc' = "free"
                 /\ status' = status
    /\ UNCHANGED <<envVars, dataVars, termVars, handlers, menuVars, freed>>

\* main, lines 330-335: the *_free calls and return 0.
Free ==
    /\ pc = "free"
    /\ freed' = freed \cup {"menu", "iso_info", "resources", "args"}
    /\ Leave(0)
    /\ UNCHANGED <<envVars, outfile, dataVars, termVars, handlers, menuVars,
                   writeCalls, syslog>>

\* exit(): the registered handlers run (exit_cb, if registered, erases the
\* screen and ends curses mode), then the process ends.
Exit ==
    /\ pc = "exit"
    /\ IF \E i \in 1 .. Len(handlers) : handlers[i] = "exit_cb"
       THEN /\ term' = exit_cb(term)
            /\ screen' = {}
            /\ endwinCalls' = endwinCalls + Len(handlers)
       ELSE UNCHANGED <<term, screen, endwinCalls>>
    /\ pc' = "done"
    /\ UNCHANGED <<envVars, outfile, status, dataVars, LINES, COLS, handlers,
                   menuVars, writeCalls, syslog, freed>>

Next ==
    \/ ArgsCreate
    \/ ReadIsoChoices
    \/ InitScr
    \/ AtExit
    \/ HasColors
    \/ StartColor
    \/ Setup
    \/ MenuCreate
    \/ \E k \in Keys : ReadKey(k)
    \/ WriteOutput
    \/ Free
    \/ Exit

Spec == Init /\ [][Next]_vars

\* The process is scheduled, so main goes on whenever it can take a step; and
\* the operator eventually presses a commit key while main waits in wgetch.
LiveSpec ==
    /\ Spec
    /\ WF_vars(Next)
    /\ WF_vars(\E k \in {"KEY_ENTER", "CR", "NL", "SPACE"} : ReadKey(k))

(* ---------------------------- properties -------------------------------- *)

Min(a, b) == IF a < b THEN a ELSE b

CommitKeys == {"KEY_ENTER", "CR", "NL", "SPACE"}
ArrowKeys == {"KEY_DOWN", "KEY_UP"}

\* main is in its loop, about to read a key.
Navigating == pc = "loop" /\ continuing

\* C1: in the loop, with n >= 1 entries and highlight i in [0, n), a
\* down-arrow sets the highlight to min(i+1, n-1) and an up-arrow sets it to
\* max(i-1, 0): the highlight never wraps around and never leaves [0, n).
C1_ArrowsClampHighlight ==
    [][ Navigating =>
          LET n == menu.choices.len
              i == menu.cur
          IN  /\ n >= 1
              /\ i \in 0 .. n - 1
              /\ lastKey' = "KEY_DOWN" => menu'.cur = Min(i + 1, n - 1)
              /\ lastKey' = "KEY_UP" => menu'.cur = MAX(i - 1, 0) ]_vars

\* C1 witness (scenario D): with a single entry the highlight is on the first
\* and last entry at once; an up-arrow was read there and the highlight is
\* still on it.
C1_Witness ==
    /\ Navigating
    /\ menu.choices.len = 1
    /\ lastKey = "KEY_UP"
    /\ menu.cur = 0

\* C2: every record passed to write_output is the ChoiceSet element at the
\* index highlighted when the commit key was read; that index is in [0, n);
\* the pointer passed is the ChoiceSet's own pointer, and no further record
\* was allocated to hold a copy.
C2_CommittedRecordIsHighlightedElement ==
    /\ menu # NULL => menu.cur \in 0 .. iso_info.len - 1
    /\ \A j \in 1 .. Len(writeCalls) :
          /\ lastKey \in CommitKeys
          /\ writeCalls[j].iso_data = iso_info.values[menu.cur]
          /\ writeCalls[j].iso_data # NULL
          /\ Len(heap) = iso_info.len

\* C2 witness (scenario B): two feeds, Server then Desktop; down once, then
\* commit: write_output got the second record.
C2_Witness ==
    /\ pc = "free"
    /\ Len(writeCalls) = 1
    /\ writeCalls[1].result = "written"
    /\ iso_info.len = 2
    /\ heap[iso_info.values[0].addr].label = "Ubuntu Server 24.04"
    /\ menu.cur = 1
    /\ heap[writeCalls[1].iso_data.addr].label = "Ubuntu Desktop 24.04"
    /\ outfile.lines[2] = "MEDIA_LABEL=\"Ubuntu Desktop 24.04\""

\* C3: each of enter, carriage-return, newline and space ends the loop on the
\* iteration that reads it and leaves the highlighted index as it was.
C3_CommitKeyEndsLoop ==
    [][ (Navigating /\ lastKey' \in CommitKeys) =>
          /\ ~continuing'
          /\ pc' = "write_output"
          /\ menu'.cur = menu.cur ]_vars

\* C3 witness: space was read with the highlight on the third entry, and the
\* loop has ended there.
C3_Witness ==
    /\ pc = "write_output"
    /\ lastKey = "SPACE"
    /\ menu.cur = 2

\* C4: a key that is neither an arrow nor a commit key changes nothing: the
\* menu (and so the highlight) is as before, main stays in the loop, and the
\* output file and the calls of write_output are as before.
C4_OtherKeyIgnored ==
    [][ (Navigating /\ lastKey' \notin ArrowKeys \cup CommitKeys) =>
          /\ menu' = menu
          /\ pc' = "loop"
          /\ continuing'
          /\ outfile' = outfile
          /\ writeCalls' = writeCalls ]_vars

\* C4 witness: ESC was read with the highlight on the second entry; main is
\* still in the loop.
C4_Witness ==
    /\ Navigating
    /\ lastKey = "ESC"
    /\ menu.cur = 1

\* C5: the loop is left only by reading a commit key, and then to
\* write_output; write_output is called at most once, and only after a commit
\* key was read.
C5_NoCancelPath ==
    /\ [][ (pc = "loop" /\ pc' # "loop") =>
              (lastKey' \in CommitKeys /\ pc' = "write_output") ]_vars
    /\ [](/\ Len(writeCalls) <= 1
          /\ Len(writeCalls) = 1 => lastKey \in CommitKeys
          /\ pc \in {"write_output", "free"} => lastKey \in CommitKeys)

\* C5 witness: the process has ended after the loop ran (keys were read) and
\* write_output was called once.
C5_Witness ==
    /\ pc = "done"
    /\ lastKey = "NL"
    /\ Len(writeCalls) = 1

\* The process has ended: by exit, or killed by a signal.
Terminated == pc \in {"done", "crashed"}

\* main got past read_iso_choices.
ChoicesRead == args # NULL /\ pc \notin {"args_create", "read_iso_choices"}

\* Feed k is the first that yields no record.
FirstFailure(k) ==
    /\ feeds[k] = NoRecord
    /\ \A j \in 0 .. k - 1 : feeds[j] # NoRecord

\* C6: once initscr has succeeded, the terminal is released on every path by
\* which the process ends, exactly once.
C6_TerminalReleasedOnEveryExit ==
    /\ endwinCalls <= 1
    /\ (Terminated /\ term.state # "shell") =>
          (term.state = "ended" /\ endwinCalls = 1)

\* C7: read_iso_choices calls the Feed Reader once per feed, in order; when
\* feed k is the first to yield no record, the reader was called for feeds
\* 0..k only and no ChoiceSet (so none with a null entry) came back.
C7_FailFast ==
    ChoicesRead =>
       /\ (\A k \in DOMAIN feeds : feeds[k] # NoRecord) =>
              readerCalls = [j \in 1 .. args.num_infiles |-> args.infiles[j - 1]]
       /\ \A k \in DOMAIN feeds :
              FirstFailure(k) =>
                 /\ readerCalls = [j \in 1 .. k + 1 |-> args.infiles[j - 1]]
                 /\ iso_info = NULL

\* C8: when some feed yields no record, the terminal is never initialised, no
\* menu is made or drawn, no key is read, write_output is never called (the
\* output file is never opened), and the process ends with a non-zero status.
C8_FeedFailureBeforeTerminal ==
    (args # NULL /\ \E k \in DOMAIN feeds : feeds[k] = NoRecord) =>
       /\ term.state = "shell"
       /\ menu = NULL
       /\ screen = {}
       /\ lastKey = "none"
       /\ writeCalls = <<>>
       /\ Terminated => status # 0

\* C9: when every feed yields a record, the ChoiceSet has one entry per input
\* file, entry i points to the object the i-th reader call returned, which
\* holds the record of input file i; menu item i shows the label of feed i.
C9_ChoiceSetKeepsInputOrder ==
    (ChoicesRead /\ \A f \in DOMAIN feeds : feeds[f] # NoRecord) =>
       /\ iso_info.len = argc - 2
       /\ DOMAIN iso_info.values = 0 .. iso_info.len - 1
       /\ Len(readerCalls) = iso_info.len
       /\ \A i \in 0 .. iso_info.len - 1 :
              /\ readerCalls[i + 1] = args.infiles[i]
              /\ iso_info.values[i] = [addr |-> i + 1]
              /\ heap[iso_info.values[i].addr] = feeds[args.infiles[i]]
       /\ menu # NULL =>
              /\ DOMAIN menu.items = 0 .. iso_info.len - 1
              /\ \A i \in 0 .. iso_info.len - 1 :
                     LET label == feeds[args.infiles[i]].label
                     IN  SubSeq(menu.items[i].name, 3, 2 + Len(label)) = label

\* C9 witness: three feeds, Desktop, Server, Desktop, were read and the menu
\* was made from them.
C9_Witness ==
    /\ pc = "loop"
    /\ iso_info.len = 3
    /\ feeds[0].label = "Ubuntu Desktop 24.04"
    /\ feeds[1].label = "Ubuntu Server 24.04"
    /\ feeds[2].label = "Ubuntu Desktop 24.04"

\* write_output has reported that it could not open the output file.
OpenFailureReported ==
    \E i \in 1 .. Len(syslog) : syslog[i] = "failed to open output file"

\* C10 as stated: when the open failure is reported, the menu and the
\* terminal have already been torn down; the process exits non-zero.
C10_TornDownBeforeReport ==
    OpenFailureReported =>
       /\ "menu" \in freed
       /\ "menu" \notin screen
       /\ term.state = "ended"
       /\ Terminated => status # 0

\* C10 amended: the open failure (after a commit) is reported while the menu
\* is still posted and drawn and the terminal is still in curses mode; the
\* menu is never freed on this path; exit(1) then runs exit_cb, which erases
\* the screen and releases the terminal once, and the process ends with
\* status 1.
C10_ReportedBeforeTeardown ==
    OpenFailureReported =>
       /\ lastKey \in CommitKeys
       /\ Len(writeCalls) = 1
       /\ pc \in {"exit", "done"}
       /\ status = 1
       /\ "menu" \notin freed
       /\ menu.posted
       /\ pc = "exit" =>
              (term.state = "curses" /\ "menu" \in screen /\ endwinCalls = 0)
       /\ pc = "done" =>
              (term.state = "ended" /\ screen = {} /\ endwinCalls = 1)

\* C10 witness: the open failure has just been reported, the second entry
\* being the committed one, and exit has not yet run its handlers.
C10_Witness ==
    /\ OpenFailureReported
    /\ pc = "exit"
    /\ menu.cur = 1

\* Some write_output call found the file open and every write succeed.
OutputWritten ==
    \E j \in 1 .. Len(writeCalls) : writeCalls[j].result = "written"

UsageError == pc # "args_create" /\ args = NULL

\* Some input feed yields no record.
FeedFailure == args # NULL /\ \E k \in DOMAIN feeds : feeds[k] = NoRecord

\* initscr, has_colors or start_color failed.
TermInitFailed ==
    \E i \in 1 .. Len(syslog) :
       syslog[i] \in {"initscr failure", "has_colors failure", "start_color failure"}

\* C12: the exit status is 0 exactly when a selection was committed and the
\* output file was opened and written; it is 1 on a usage error, a feed read
\* failure, a terminal initialisation failure and an open failure.
C12_ExitStatus ==
    Terminated =>
       /\ status = 0 <=> (lastKey \in CommitKeys /\ OutputWritten)
       /\ (UsageError \/ FeedFailure \/ TermInitFailed \/ OpenFailureReported)
             => status = 1

\* C13: a run ends either with the full four-line output file or with no
\* output written by that run; no run ends with status 0 and fewer than the
\* four lines in the file.
C13_AllOrNothing ==
    Terminated =>
       /\ \/ OutputWritten /\ Len(outfile.lines) = 4
          \/ \A j \in 1 .. Len(writeCalls) : writeCalls[j].result = "open failed"
       /\ status = 0 => (outfile.exists /\ Len(outfile.lines) = 4)

\* C14: a failure of initscr, has_colors or start_color is fatal and not
\* retried: one failure is logged, main returns 1, no menu is made or drawn,
\* no key is read and write_output is never called, so the output file is
\* never opened and no record is selected.
C14_TermInitFailureIsFatal ==
    TermInitFailed =>
       /\ pc \in {"exit", "done"}
       /\ status = 1
       /\ Cardinality({i \in 1 .. Len(syslog) :
              syslog[i] \in {"initscr failure", "has_colors failure",
                             "start_color failure"}}) = 1
       /\ menu = NULL
       /\ "menu" \notin screen
       /\ lastKey = "none"
       /\ writeCalls = <<>>

\* C14 witness: has_colors failed with three readable feeds, and the process
\* has ended.
C14_Witness ==
    /\ pc = "done"
    /\ syslog = <<"has_colors failure">>
    /\ argc = 5
    /\ ~FeedFailure

\* The menu is posted and no key has been read yet.
Rendered == pc = "loop" /\ lastKey = "none"

\* C15: when the menu is first rendered the highlight is on index 0, and a
\* commit key read as the first key ends the loop with the highlight on
\* index 0, whose record is that of the first input feed.
C15_FirstChoiceInitiallyHighlighted ==
    /\ [](Rendered => menu.cur = 0)
    /\ [][ (Rendered /\ lastKey' \in CommitKeys) =>
              /\ pc' = "write_output"
              /\ menu'.cur = 0
              /\ menu'.choices.values[menu'.cur] = iso_info.values[0]
              /\ heap[iso_info.values[0].addr] = feeds[args.infiles[0]] ]_vars

\* C15 witness: a menu of three choices is rendered and no key was read.
C15_Witness ==
    /\ Rendered
    /\ iso_info.len = 3

\* C16: while no commit key has been read main stays in its loop, each
\* iteration waiting for one key: it does not end, time out, or call
\* write_output.  Once a commit key is delivered the run ends, and when the
\* output path could be opened and written it ended with the four lines in
\* the file and status 0.
C16_BlocksUntilCommitThenTerminates ==
    /\ [](lastKey \notin CommitKeys =>
            (pc \notin {"write_output", "free"} /\ writeCalls = <<>>))
    /\ [][ (Navigating /\ lastKey' \notin CommitKeys) =>
              (Navigating' /\ status' = status /\ outfile' = outfile) ]_vars
    /\ Navigating ~>
          (/\ pc = "done"
           /\ lastKey \in CommitKeys
           /\ Len(writeCalls) = 1
           /\ OutputWritten => (status = 0 /\ Len(outfile.lines) = 4))

\* C16 witness: keys other than commit keys were read, then a commit key; the
\* file was written and the process has ended with status 0.
C16_Witness ==
    /\ pc = "done"
    /\ status = 0
    /\ OutputWritten
    /\ menu.cur = 2

\* The Selection Session: from menu_create to the end of write_output.
InSession == pc \in {"menu_create", "loop", "write_output"}

\* C17: no step of the Selection Session (rendering, any key, the commit)
\* changes the ChoiceSet or the records it points to; the menu keeps pointing
\* to that ChoiceSet; and the record write_output received for index i has
\* the field values the Feed Reader produced for feed i.
C17_ChoiceSetImmutableInSession ==
    /\ [][ InSession => (iso_info' = iso_info /\ heap' = heap) ]_vars
    /\ [](menu # NULL => menu.choices = iso_info)
    /\ [](\A j \in 1 .. Len(writeCalls) :
             heap[writeCalls[j].iso_data.addr] = feeds[args.infiles[menu.cur]])

\* C17 witness: after arrow keys were read, the third of three records, a
\* Server one after two Desktop ones, was committed and passed on.
C17_Witness ==
    /\ Len(writeCalls) = 1
    /\ iso_info.len = 3
    /\ menu.cur = 2
    /\ feeds[0].label = "Ubuntu Desktop 24.04"
    /\ feeds[1].label = "Ubuntu Desktop 24.04"
    /\ feeds[2].label = "Ubuntu Server 24.04"

\* The length of the longest label among the records of the ChoiceSet.
LongestLabel ==
    LET lens == {Len(heap[iso_info.values[i].addr].label) :
                    i \in 0 .. iso_info.len - 1}
    IN  CHOOSE l \in lens : \A x \in lens : x <= l

\* C18: every button is "[ ", the whole label, spaces up to the length of
\* the longest label, then " > ]" (the glyph taking one column): all buttons
\* are longest + 6 wide, which is the width of the menu window, and no label
\* is cut.
C18_ButtonsShareOneWidth ==
    menu # NULL =>
       \A i \in 0 .. iso_info.len - 1 :
          LET name  == menu.items[i].name
              label == heap[iso_info.values[i].addr].label
              L     == LongestLabel
          IN  /\ Len(name) = L + 6
              /\ menu.window.ncols = L + 6
              /\ SubSeq(name, 1, 2) = "[ "
              /\ SubSeq(name, 3, 2 + Len(label)) = label
              /\ \A p \in 3 + Len(label) .. 2 + L : SubSeq(name, p, p) = " "
              /\ SubSeq(name, L + 3, L + 6) = " > ]"

\* C18 witness: a menu whose first label is the longer one and whose second
\* label is padded.
C18_Witness ==
    /\ menu # NULL
    /\ iso_info.len = 2
    /\ menu.items[0].name = "[ Ubuntu Desktop 24.04 > ]"
    /\ menu.items[1].name = "[ Ubuntu Server 24.04  > ]"

\* q is a / 2 as C computes it: rounded toward zero.
IsHalfOf(q, a) ==
    IF a >= 0 THEN 2 * q <= a /\ a <= 2 * q + 1
    ELSE 2 * q >= a /\ a >= 2 * q - 1

\* C19: the menu window has n rows and the buttons' width, and is placed at
\* column (COLS - width) / 2 and row 3 + (LINES - 3 - n) / 2; when
\* n <= LINES - 3 and width <= COLS it lies inside the screen and below the
\* three banner rows.
C19_WindowCenteredBelowBanner ==
    menu # NULL =>
       LET n     == iso_info.len
           width == LongestLabel + 6
           win   == menu.window
       IN  /\ win.nlines = n
           /\ win.ncols = width
           /\ IsHalfOf(win.begin_x, COLS - width)
           /\ IsHalfOf(win.begin_y - 3, LINES - 3 - n)
           /\ (n <= LINES - 3 /\ width <= COLS) =>
                 /\ win.begin_y >= 3
                 /\ win.begin_y + n - 1 < LINES
                 /\ win.begin_x >= 0
                 /\ win.begin_x + width - 1 < COLS

\* C19 witness: two buttons of width 26 on a screen of 5 rows and 26
\* columns: the list fits exactly, from row 3 and column 0.
C19_Witness ==
    /\ menu # NULL
    /\ iso_info.len = 2
    /\ LINES = 5
    /\ COLS = 26
    /\ menu.window.ncols = 26
    /\ menu.window.begin_y = 3
    /\ menu.window.begin_x = 0

\* initscr failed.
InitScrFailed == \E i \in 1 .. Len(syslog) : syslog[i] = "initscr failure"

\* C20: exit_cb is registered only once the terminal is acquired, and endwin
\* is called only in a run that acquired it; a run with a usage error, a feed
\* read failure or an initscr failure ends without any endwin call.
C20_ReleaseOnlyAfterAcquire ==
    /\ handlers # <<>> => term.state # "shell"
    /\ endwinCalls > 0 => term.state = "ended"
    /\ (Terminated /\ (UsageError \/ FeedFailure \/ InitScrFailed)) =>
          endwinCalls = 0

=============================================================================
